---- MODULE Spec2Model ----
(***************************************************************************)
(* Prefix auto-complete over a weighted vocabulary: the compressed trie    *)
(* (completion/src/trie.rs, internal.rs), the naive sorted-set index       *)
(* (completion/src/naive.rs) and the ranking of suggestions (lib.rs).      *)
(*                                                                         *)
(* A char is its Unicode code point (97 is 'a', 98 is 'b', 233 is the      *)
(* two-byte 'e' with acute accent); a String or a [char] slice is a        *)
(* sequence of code points.  A Suggestion is the record [word, score].     *)
(* A BTreeSet<Rc<Suggestion>> is a set of such records: the set is keyed   *)
(* by Ord, which compares score and word, i.e. the whole record.           *)
(* An Option is the empty sequence (None) or a one-element sequence.       *)
(***************************************************************************)
EXTENDS Integers, Sequences, FiniteSets, Bags, TLC

VARIABLES root, naive, vocab, status, last

vars == <<root, naive, vocab, status, last>>

(***************************************************************************)
(* Bounds of the model and the inputs the actions draw from.               *)
(***************************************************************************)
MaxInserts == 6

\* The (word, score) pairs a vocabulary is drawn from: the empty word, a word,
\* two extensions of it that share its edge, ties and distinct scores for the
\* same word, and two words with a two-byte character.
Vocabulary ==
    { [word |-> <<>>, score |-> 1],
      [word |-> <<97>>, score |-> 1], [word |-> <<97>>, score |-> 2],
      [word |-> <<97, 98>>, score |-> 1], [word |-> <<97, 98>>, score |-> 2],
      [word |-> <<97, 99>>, score |-> 1], [word |-> <<97, 99>>, score |-> 2],
      [word |-> <<233>>, score |-> 1], [word |-> <<233, 97>>, score |-> 1] }

\* The prefixes queried: the empty prefix, whole words, a prefix that ends
\* inside an edge label, one that leaves the vocabulary, one longer than
\* every word.
Prefixes == { <<>>, <<97>>, <<97, 98>>, <<97, 98, 97>>, <<233>> }

(***************************************************************************)
(* Text: UTF-8 length and encoding of a char, byte length of a String,     *)
(* String comparison and str::starts_with (both work on the bytes).        *)
(***************************************************************************)
len_utf8(c) ==
    IF c < 128 THEN 1 ELSE IF c < 2048 THEN 2 ELSE IF c < 65536 THEN 3 ELSE 4

encode_utf8(c) ==
    IF c < 128 THEN <<c>>
    ELSE IF c < 2048 THEN <<192 + (c \div 64), 128 + (c % 64)>>
    ELSE IF c < 65536
         THEN <<224 + (c \div 4096), 128 + ((c \div 64) % 64), 128 + (c % 64)>>
         ELSE <<240 + (c \div 262144), 128 + ((c \div 4096) % 64),
                128 + ((c \div 64) % 64), 128 + (c % 64)>>

RECURSIVE Bytes(_)
Bytes(s) == IF s = <<>> THEN <<>> ELSE encode_utf8(Head(s)) \o Bytes(Tail(s))

RECURSIVE StrLen(_)
StrLen(s) == IF s = <<>> THEN 0 ELSE len_utf8(Head(s)) + StrLen(Tail(s))

RECURSIVE CmpBytes(_, _)
CmpBytes(a, b) ==
    IF a = <<>> THEN (IF b = <<>> THEN "Equal" ELSE "Less")
    ELSE IF b = <<>> THEN "Greater"
    ELSE IF Head(a) < Head(b) THEN "Less"
    ELSE IF Head(a) > Head(b) THEN "Greater"
    ELSE CmpBytes(Tail(a), Tail(b))

CmpString(a, b) == CmpBytes(Bytes(a), Bytes(b))

CmpU32(a, b) == IF a < b THEN "Less" ELSE IF a > b THEN "Greater" ELSE "Equal"

starts_with(word, prefix) ==
    LET w == Bytes(word)
        p == Bytes(prefix)
    IN  Len(p) <= Len(w) /\ SubSeq(w, 1, Len(p)) = p

(***************************************************************************)
(* Suggestion and its ranking (lib.rs).                                    *)
(***************************************************************************)
SuggestionNew(word, score) == [word |-> word, score |-> score]

\* Ord::cmp: score first, then word.
SuggestionCmp(a, b) ==
    IF CmpU32(a.score, b.score) # "Equal"
    THEN CmpU32(a.score, b.score)
    ELSE CmpString(a.word, b.word)

\* PartialOrd::partial_cmp: the same comparison, wrapped in Some.
SuggestionPartialCmp(a, b) ==
    IF CmpU32(a.score, b.score) # "Equal"
    THEN <<CmpU32(a.score, b.score)>>
    ELSE <<CmpString(a.word, b.word)>>

\* PartialEq::eq with a plausible slip: the scores of both sides are compared.
SuggestionEqWithScore(a, b) == a.score = b.score /\ a.word = b.word

\* PartialEq::eq: the score is compared to itself, the words to each other.
SuggestionEq(a, b) == a.score = a.score /\ a.word = b.word

\* == on Vec<Rc<Suggestion>>, as in the assert_eq of trie_vs_naive_test: equal
\* lengths and elementwise PartialEq::eq.
VecEq(xs, ys) ==
    Len(xs) = Len(ys) /\ \A i \in 1..Len(xs) : SuggestionEq(xs[i], ys[i])

(***************************************************************************)
(* BTreeSet<Rc<Suggestion>>: iteration is ascending in Ord.                *)
(***************************************************************************)
BTreeFirst(set) == CHOOSE m \in set : \A x \in set : SuggestionCmp(m, x) # "Greater"

BTreeLast(set) == CHOOSE m \in set : \A x \in set : SuggestionCmp(m, x) # "Less"

\* insert: an element that compares Equal to a stored one is not added.
BTreeInsert(set, x) ==
    IF \E y \in set : SuggestionCmp(x, y) = "Equal" THEN set ELSE set \cup {x}

BTreeRemove(set, x) == { y \in set : SuggestionCmp(x, y) # "Equal" }

\* iter().rev() collected: highest ranked first.
RECURSIVE BTreeIterRev(_)
BTreeIterRev(set) ==
    IF set = {} THEN <<>>
    ELSE LET m == BTreeLast(set) IN <<m>> \o BTreeIterRev(set \ {m})

\* iter() collected: lowest ranked first.
RECURSIVE BTreeIter(_)
BTreeIter(set) ==
    IF set = {} THEN <<>>
    ELSE LET m == BTreeFirst(set) IN <<m>> \o BTreeIter(set \ {m})

(***************************************************************************)
(* Node and Edge (internal.rs).                                            *)
(***************************************************************************)
TopK == 5

NodeEmpty == [edges |-> <<>>, suggestion |-> <<>>, top_suggestions |-> {}]

first_suggestion(top) == IF top = {} THEN <<>> ELSE <<BTreeFirst(top)>>

\* add_suggestion with a plausible slip: the cache is never capped.
add_suggestion_uncapped(top, suggestion) == BTreeInsert(top, suggestion)

add_suggestion(top, suggestion) ==
    IF Cardinality(top) < TopK
    THEN BTreeInsert(top, suggestion)
    ELSE LET min_score_suggestion == first_suggestion(top)[1]
         IN  IF SuggestionPartialCmp(suggestion, min_score_suggestion) = <<"Greater">>
             THEN BTreeInsert(BTreeRemove(top, min_score_suggestion), suggestion)
             ELSE top

NodeNew(suggestion) ==
    [edges |-> <<>>,
     suggestion |-> <<suggestion>>,
     top_suggestions |-> add_suggestion({}, suggestion)]

\* sorted_suggestions with a plausible slip: the rev() is missing.
sorted_suggestions_ascending(node) == BTreeIter(node.top_suggestions)

sorted_suggestions(node) == BTreeIterRev(node.top_suggestions)

EdgeNewNode(part, node) == [part |-> part, node |-> node]

\* Edge::new with a plausible slip: one node per character, as in a trie
\* that does not compress its paths.
RECURSIVE EdgeNewPerChar(_, _)
EdgeNewPerChar(part, suggestion) ==
    IF Len(part) <= 1
    THEN EdgeNewNode(part, NodeNew(suggestion))
    ELSE EdgeNewNode(<<part[1]>>,
                     [edges |-> (part[2] :> EdgeNewPerChar(Tail(part), suggestion)),
                      suggestion |-> <<>>,
                      top_suggestions |-> {suggestion}])

EdgeNew(part, suggestion) == EdgeNewNode(part, NodeNew(suggestion))

EdgeEmpty(part) == [part |-> part, node |-> NodeEmpty]

\* HashMap<char, Edge>: a function from the keys to the edges.
MapInsert(edges, key, edge) ==
    [k \in (DOMAIN edges) \cup {key} |-> IF k = key THEN edge ELSE edges[k]]

MapRemove(edges, key) == [k \in (DOMAIN edges) \ {key} |-> edges[k]]

(***************************************************************************)
(* Trie (trie.rs).                                                         *)
(***************************************************************************)
\* The loop of insert_at: the index where part and remaining stop matching,
\* or -1 when part_chars[part_index] is read out of range.  The loop is
\* bounded by part.len(), the length of the String in bytes.
RECURSIVE MatchPart(_, _, _, _)
MatchPart(part_len, part_chars, remaining, part_index) ==
    IF part_index < part_len /\ part_index < Len(remaining)
    THEN IF part_index >= Len(part_chars) THEN -1
         ELSE IF part_chars[part_index + 1] = remaining[part_index + 1]
              THEN MatchPart(part_len, part_chars, remaining, part_index + 1)
              ELSE part_index
    ELSE part_index

\* SplitEdge with a plausible slip: the old child keeps its whole label.
SplitEdgeWholeLabel(prefix, suffix_of_part, edge) ==
    LET temp_edge == EdgeEmpty(prefix)
    IN  [temp_edge EXCEPT
           !.node.top_suggestions = edge.node.top_suggestions,
           !.node.edges = MapInsert(@, suffix_of_part[1],
                                    EdgeNewNode(edge.part, edge.node))]

\* SplitEdge with a plausible slip: the old child is not attached again.
SplitEdgeDropsChild(prefix, suffix_of_part, edge) ==
    LET temp_edge == EdgeEmpty(prefix)
    IN  [temp_edge EXCEPT !.node.top_suggestions = edge.node.top_suggestions]

\* The split of insert_at: the temporary edge for the common prefix, its node
\* seeded with a clone of the old child's cache and holding the old child
\* under the unmatched suffix of the old label.
SplitEdge(prefix, suffix_of_part, edge) ==
    LET temp_edge == EdgeEmpty(prefix)
    IN  [temp_edge EXCEPT
           !.node.top_suggestions = edge.node.top_suggestions,
           !.node.edges = MapInsert(@, suffix_of_part[1],
                                    EdgeNewNode(suffix_of_part, edge.node))]

\* insert_at: the node after the call, and whether the call panicked (the
\* node is then as the unwinding leaves it: the removed edge is dropped).
RECURSIVE insert_at(_, _, _)
insert_at(node0, remaining, suggestion) ==
    LET node == [node0 EXCEPT !.top_suggestions = add_suggestion(@, suggestion)]
    IN  IF Len(remaining) = 0 THEN [node |-> node, panic |-> FALSE]
        ELSE
        LET ch == remaining[1] IN
        IF ch \in DOMAIN node.edges
        THEN
          LET edge == node.edges[ch]
              removed == [node EXCEPT !.edges = MapRemove(@, ch)]
              part_chars == edge.part
              part_index == MatchPart(StrLen(edge.part), part_chars, remaining, 0)
          IN  IF part_index < 0 THEN [node |-> removed, panic |-> TRUE]
              ELSE
              LET prefix == SubSeq(part_chars, 1, part_index)
                  suffix_of_part == SubSeq(part_chars, part_index + 1, Len(part_chars))
                  suffix_of_remaining == SubSeq(remaining, part_index + 1, Len(remaining))
              IN  IF Len(prefix) < Len(part_chars)
                  THEN
                    LET temp_edge == SplitEdge(prefix, suffix_of_part, edge)
                        r == insert_at(temp_edge.node, suffix_of_remaining, suggestion)
                    IN  IF r.panic \/ Len(prefix) = 0
                        THEN [node |-> removed, panic |-> TRUE]
                        ELSE [node |-> [removed EXCEPT !.edges =
                                          MapInsert(@, prefix[1], EdgeNewNode(prefix, r.node))],
                              panic |-> FALSE]
                  ELSE
                    LET r == insert_at(edge.node, suffix_of_remaining, suggestion)
                    IN  IF r.panic
                        THEN [node |-> removed, panic |-> TRUE]
                        ELSE [node |-> [removed EXCEPT !.edges =
                                          MapInsert(@, ch, EdgeNewNode(edge.part, r.node))],
                              panic |-> FALSE]
        ELSE [node |-> [node EXCEPT !.edges =
                          MapInsert(@, ch, EdgeNew(remaining, suggestion))],
              panic |-> FALSE]

\* Trie::insert
TrieInsert(trie, word, score) == insert_at(trie, word, SuggestionNew(word, score))

\* The loop of walk with a plausible slip: the characters are not compared,
\* the index runs to the end of the shorter of input and part.
MatchWalkNoCompare(input, part, index) ==
    IF Len(input) < Len(part) THEN Len(input) ELSE Len(part)

\* The loop of walk: how far input and part agree.
RECURSIVE MatchWalk(_, _, _)
MatchWalk(input, part, index) ==
    IF index < Len(input) /\ index < Len(part) /\ input[index + 1] = part[index + 1]
    THEN MatchWalk(input, part, index + 1)
    ELSE index

\* walk with a plausible slip: when the input ends inside the label, the
\* cache of the node above the edge is returned.
RECURSIVE walk_cache_above(_, _)
walk_cache_above(node, input) ==
    IF Len(input) = 0 THEN sorted_suggestions(node)
    ELSE IF input[1] \in DOMAIN node.edges
         THEN LET edge == node.edges[input[1]]
                  part == edge.part
                  index == MatchWalk(input, part, 0)
              IN  IF index = Len(part)
                  THEN walk_cache_above(edge.node, SubSeq(input, index + 1, Len(input)))
                  ELSE IF index = Len(input)
                       THEN sorted_suggestions(node)
                       ELSE <<>>
         ELSE <<>>

RECURSIVE walk(_, _)
walk(node, input) ==
    IF Len(input) = 0 THEN sorted_suggestions(node)
    ELSE IF input[1] \in DOMAIN node.edges
         THEN LET edge == node.edges[input[1]]
                  part == edge.part
                  index == MatchWalk(input, part, 0)
              IN  IF index = Len(part)
                  THEN walk(edge.node, SubSeq(input, index + 1, Len(input)))
                  ELSE IF index = Len(input)
                       THEN sorted_suggestions(edge.node)
                       ELSE <<>>
         ELSE <<>>

\* WalkStep with a plausible slip: the walk goes on with the whole input.
WalkStepKeepsInput(node, input) ==
    IF Len(input) = 0
    THEN [done |-> TRUE, how |-> "node", result |-> sorted_suggestions(node),
          node |-> node, input |-> input]
    ELSE IF input[1] \in DOMAIN node.edges
         THEN LET edge == node.edges[input[1]]
                  part == edge.part
                  index == MatchWalk(input, part, 0)
              IN  IF index = Len(part)
                  THEN [done |-> FALSE, how |-> "descend", result |-> <<>>,
                        node |-> edge.node, input |-> input]
                  ELSE IF index = Len(input)
                       THEN [done |-> TRUE, how |-> "inside",
                             result |-> sorted_suggestions(edge.node),
                             node |-> edge.node, input |-> <<>>]
                       ELSE [done |-> TRUE, how |-> "mismatch", result |-> <<>>,
                             node |-> node, input |-> input]
         ELSE [done |-> TRUE, how |-> "missing", result |-> <<>>,
               node |-> node, input |-> input]

\* One call of walk: either it returns (done, with the list and the branch
\* that returned it) or it calls walk on the edge's node with the input left.
WalkStep(node, input) ==
    IF Len(input) = 0
    THEN [done |-> TRUE, how |-> "node", result |-> sorted_suggestions(node),
          node |-> node, input |-> input]
    ELSE IF input[1] \in DOMAIN node.edges
         THEN LET edge == node.edges[input[1]]
                  part == edge.part
                  index == MatchWalk(input, part, 0)
              IN  IF index = Len(part)
                  THEN [done |-> FALSE, how |-> "descend", result |-> <<>>,
                        node |-> edge.node,
                        input |-> SubSeq(input, index + 1, Len(input))]
                  ELSE IF index = Len(input)
                       THEN [done |-> TRUE, how |-> "inside",
                             result |-> sorted_suggestions(edge.node),
                             node |-> edge.node, input |-> <<>>]
                       ELSE [done |-> TRUE, how |-> "mismatch", result |-> <<>>,
                             node |-> node, input |-> input]
         ELSE [done |-> TRUE, how |-> "missing", result |-> <<>>,
               node |-> node, input |-> input]

\* The calls of walk that Trie::suggestions makes, at most fuel of them: the
\* input of each call, and the step that returned (done is FALSE when the
\* calls were cut off before any returned).
RECURSIVE WalkRun(_, _, _)
WalkRun(node, input, fuel) ==
    LET step == WalkStep(node, input)
    IN  IF step.done \/ fuel <= 1
        THEN [inputs |-> <<input>>, end |-> step]
        ELSE LET rest == WalkRun(step.node, step.input, fuel - 1)
             IN  [inputs |-> <<input>> \o rest.inputs, end |-> rest.end]

\* Trie::new: the pairs of input inserted in order into an empty trie.
RECURSIVE TrieNew(_)
TrieNew(input) ==
    IF input = <<>> THEN [node |-> NodeEmpty, panic |-> FALSE]
    ELSE LET n == Len(input)
             t == TrieNew(SubSeq(input, 1, n - 1))
         IN  IF t.panic THEN t ELSE TrieInsert(t.node, input[n].word, input[n].score)

\* Trie::suggestions
TrieSuggestions(trie, prefix) == walk(trie, prefix)

(***************************************************************************)
(* NaiveAutoComplete (naive.rs).                                           *)
(***************************************************************************)
\* The sort of BTreeSet::from_iter: the collected pairs in ascending Ord.
\* Pairs that compare Equal are the same (word, score), so the sorted
\* sequence depends on the bag of pairs only, not on the order of the slice.
RECURSIVE SortByOrd(_)
SortByOrd(input) ==
    IF BagToSet(input) = {} THEN <<>>
    ELSE LET m == CHOOSE x \in BagToSet(input) :
                      \A y \in BagToSet(input) : SuggestionCmp(x, y) # "Greater"
         IN  <<m>> \o SortByOrd(input (-) SetToBag({m}))

\* The dedup of BTreeSet::from_iter over the sorted pairs: a pair that is ==
\* (PartialEq) to the pair after it is dropped, so of neighbours that are ==
\* the last one stays.
DedupSorted(sorted) ==
    { sorted[i] : i \in { j \in 1..Len(sorted) :
                            j = Len(sorted) \/ ~SuggestionEq(sorted[j], sorted[j + 1]) } }

\* NaiveAutoComplete::new: the pairs of the slice collected into a BTreeSet.
NaiveNew(input) == DedupSorted(SortByOrd(input))

NaiveTake == 5

Take(seq, n) == SubSeq(seq, 1, IF Len(seq) < n THEN Len(seq) ELSE n)

NaiveSuggestions(set, prefix) ==
    Take(SelectSeq(BTreeIterRev(set), LAMBDA s : starts_with(s.word, prefix)), NaiveTake)

(***************************************************************************)
(* The client (client/src/main.rs): the words of the returned suggestions  *)
(* are printed with the typed prefix stripped from each.                   *)
(***************************************************************************)
\* The client's suggestions: the words of the list an index returns.
ClientSuggestions(list) == [i \in 1..Len(list) |-> list[i].word]

\* str::strip_prefix: the bytes after prefix if s starts with it, else None.
strip_prefix(s, prefix) ==
    IF starts_with(s, prefix)
    THEN <<SubSeq(Bytes(s), Len(Bytes(prefix)) + 1, Len(Bytes(s)))>>
    ELSE <<>>

\* print_suggestions unwraps strip_prefix for every word: whether it panics.
print_suggestions_panics(suggestions, prefix) ==
    \E i \in 1..Len(suggestions) : strip_prefix(suggestions[i], prefix) = <<>>

(***************************************************************************)
(* The state machine.  root is the trie and naive the naive index's        *)
(* backing set, both built from the same vocabulary; vocab is the bag of   *)
(* the pairs inserted so far; status tells whether an insert panicked;     *)
(* last is the last call and what it returned.                             *)
(***************************************************************************)
NoCall == [op |-> "new", prefix |-> <<>>, trie |-> <<>>, naive |-> <<>>]

Init ==
    /\ root = NodeEmpty
    /\ naive = {}
    /\ vocab = EmptyBag
    /\ status = "ok"
    /\ last = NoCall

\* One more (word, score) of the vocabulary: Trie::insert puts it into the
\* trie, and the naive index is the one NaiveAutoComplete::new builds from
\* the vocabulary with that pair.  A panic of Trie::insert leaves the trie as
\* the unwinding leaves it and ends the program: nothing is called
\* afterwards, and the pair does not reach the naive index.
Insert(word, score) ==
    /\ status = "ok"
    /\ BagCardinality(vocab) < MaxInserts
    /\ LET r == TrieInsert(root, word, score)
       IN  IF r.panic
           THEN /\ root' = r.node
                /\ status' = "panicked"
                /\ UNCHANGED <<naive, vocab>>
           ELSE /\ root' = r.node
                /\ vocab' = vocab (+) SetToBag({SuggestionNew(word, score)})
                /\ naive' = NaiveNew(vocab')
                /\ status' = "ok"
    /\ last' = [op |-> "insert", prefix |-> <<>>, trie |-> <<>>, naive |-> <<>>]

\* Query with a plausible slip: the list is built by draining the cache of
\* the root instead of iterating over it.
QueryDrains(prefix) ==
    /\ status = "ok"
    /\ last' = [op |-> "suggestions", prefix |-> prefix,
                trie |-> TrieSuggestions(root, prefix),
                naive |-> NaiveSuggestions(naive, prefix)]
    /\ root' = [root EXCEPT !.top_suggestions = {}]
    /\ UNCHANGED <<naive, vocab, status>>

\* suggestions(prefix) on both indexes.
Query(prefix) ==
    /\ status = "ok"
    /\ last' = [op |-> "suggestions", prefix |-> prefix,
                trie |-> TrieSuggestions(root, prefix),
                naive |-> NaiveSuggestions(naive, prefix)]
    /\ UNCHANGED <<root, naive, vocab, status>>

Next ==
    \/ \E s \in Vocabulary : Insert(s.word, s.score)
    \/ \E prefix \in Prefixes : Query(prefix)

Spec == Init /\ [][Next]_vars

(***************************************************************************)
(* Reference notions the properties are stated with.  They are written on  *)
(* code points and on the bag of inserted pairs, independently of the      *)
(* indexes and of the byte-wise comparisons above.                         *)
(***************************************************************************)
IsPrefixOf(p, w) == Len(p) <= Len(w) /\ \A i \in 1..Len(p) : p[i] = w[i]

\* a is lexicographically greater than b.
WordGreater(a, b) ==
    \E k \in 1..Len(a) :
        /\ \A i \in 1..(k - 1) : i <= Len(b) /\ a[i] = b[i]
        /\ (k > Len(b) \/ (k - 1 < Len(b) /\ a[k] > b[k]))

\* a ranks strictly above b: greater score, or equal score and greater word.
RanksAbove(a, b) ==
    a.score > b.score \/ (a.score = b.score /\ WordGreater(a.word, b.word))

Range(seq) == { seq[i] : i \in 1..Len(seq) }

StrictlyRanked(list) ==
    \A i \in 1..Len(list) : \A j \in 1..Len(list) :
        i < j => RanksAbove(list[i], list[j])

\* The distinct inserted pairs whose word starts with prefix.
Matching(bag, prefix) == { s \in BagToSet(bag) : IsPrefixOf(prefix, s.word) }

\* list is the k highest ranked members of candidates (all, if fewer), best first.
IsTop(list, candidates, k) ==
    /\ Len(list) = (IF Cardinality(candidates) < k THEN Cardinality(candidates) ELSE k)
    /\ Range(list) \subseteq candidates
    /\ StrictlyRanked(list)
    /\ \A s \in candidates \ Range(list) : \A i \in 1..Len(list) : RanksAbove(list[i], s)

Queried == last.op = "suggestions"

\* The bag's pairs in ascending rank, each as often as it was inserted.
RECURSIVE SortedInput(_)
SortedInput(bag) ==
    IF BagToSet(bag) = {} THEN <<>>
    ELSE LET m == CHOOSE x \in BagToSet(bag) :
                      \A y \in BagToSet(bag) : ~RanksAbove(x, y)
         IN  <<m>> \o SortedInput(bag (-) SetToBag({m}))

\* The pair an Insert step has just added to the vocabulary.
Inserted == CHOOSE x \in BagToSet(vocab') : CopiesIn(x, vocab') > CopiesIn(x, vocab)

InsertStep == last'.op = "insert" /\ status' = "ok"

(***************************************************************************)
(* C1.  Oracle agreement: for every vocabulary, duplicates allowed, and    *)
(* every prefix, the trie and the naive index built from it return the     *)
(* same ordered sequence of suggestions.                                   *)
(***************************************************************************)
\* C1: the two lists a query returns are the same sequence.
C1_OracleAgreement == Queried => last.trie = last.naive

(***************************************************************************)
(* C2.  After any sequence of insertions, the trie's suggestions(prefix)   *)
(* are the first 5 of the inserted pairs whose word starts with prefix,    *)
(* by descending score then descending word.                               *)
(***************************************************************************)
\* C2: the trie's list is the top 5 of the distinct inserted pairs that match.
C2_TrieIsReference == Queried => IsTop(last.trie, Matching(vocab, last.prefix), 5)

(***************************************************************************)
(* C3.  Cap: suggestions(prefix) returns at most 5 entries, from the trie  *)
(* and from the naive index, whatever was inserted.                        *)
(***************************************************************************)
\* C3: neither list a query returns is longer than 5.
C3_Cap == Queried => Len(last.trie) <= 5 /\ Len(last.naive) <= 5

\* More than 5 inserted pairs match the prefix and both lists are full.
C3_Witness ==
    /\ Queried
    /\ Cardinality(Matching(vocab, last.prefix)) > 5
    /\ Len(last.trie) = 5
    /\ Len(last.naive) = 5

(***************************************************************************)
(* C4.  Ranking: in every returned list each entry ranks strictly above    *)
(* the next one (greater score, or equal score and greater word), so no    *)
(* list holds the same (word, score) twice.                                *)
(***************************************************************************)
\* C4: both lists are strictly ranked and hold no pair twice.
C4_Ranking ==
    Queried =>
        /\ StrictlyRanked(last.trie) /\ StrictlyRanked(last.naive)
        /\ Cardinality(Range(last.trie)) = Len(last.trie)
        /\ Cardinality(Range(last.naive)) = Len(last.naive)

\* A returned list with a step in score and a tie broken by the word, from a
\* vocabulary that holds a pair twice.
C4_Witness ==
    /\ Queried
    /\ \E i \in 1..(Len(last.trie) - 1) : last.trie[i].score > last.trie[i + 1].score
    /\ \E i \in 1..(Len(last.trie) - 1) : last.trie[i].score = last.trie[i + 1].score
    /\ \E s \in Range(last.trie) : CopiesIn(s, vocab) > 1
    /\ Len(last.naive) > 1

(***************************************************************************)
(* C5.  Insertion is total: from every reachable trie, insert(word, score) *)
(* completes for every word (empty, prefix or extension of an edge label,  *)
(* multi-byte characters) and every score.                                 *)
(***************************************************************************)
\* C5: no insert panics.
C5_InsertTotal == status # "panicked"

(***************************************************************************)
(* C6.  Construction order is irrelevant: two tries built from the same    *)
(* pairs, duplicates allowed, in two orders answer every prefix alike.     *)
(* Every insertion order of every vocabulary is a reachable state, so the  *)
(* claim is that the trie of each state answers as the trie built from     *)
(* the same bag of pairs in sorted order.                                  *)
(***************************************************************************)
\* C6: the trie answers as the trie built from the same pairs in sorted order.
C6_OrderIrrelevant ==
    Queried =>
        LET sorted == TrieNew(SortedInput(vocab))
        IN  ~sorted.panic => last.trie = TrieSuggestions(sorted.node, last.prefix)

(***************************************************************************)
(* C7.  Monotonicity: an insert changes the result of suggestions(prefix)  *)
(* only in that the new pair may appear and, when the result had 5         *)
(* entries, may displace the previously lowest ranked one; no other entry  *)
(* is removed and the entries present before and after keep their order.   *)
(***************************************************************************)
\* after differs from before at most by the new pair having come in, and by
\* the last entry of a full before having gone out for it: an entry is gone
\* only if the new pair, ranking above it, has taken a place in the list.
Monotone(before, after, new) ==
    LET old == Range(before)
        now == Range(after)
    IN  /\ now \ old \subseteq {new}
        /\ old \ now # {} =>
               /\ Len(before) = 5
               /\ old \ now = {before[5]}
               /\ now \ old = {new}
               /\ RanksAbove(new, before[5])
        /\ SelectSeq(before, LAMBDA s : s \in now)
               = SelectSeq(after, LAMBDA s : s \in old)

\* C7: the list a query returned, against the list the same query returns
\* after the insert that follows it, differs as Monotone allows.
C7_Monotonicity ==
    [][(Queried /\ InsertStep) =>
         Monotone(last.trie, TrieSuggestions(root', last.prefix), Inserted)]_vars

(***************************************************************************)
(* C8.  Compression: after any sequence of insertions, in every node no    *)
(* two edges have labels starting with the same character, every edge      *)
(* label is non-empty, and each edge is keyed by the first character of    *)
(* its label.                                                              *)
(***************************************************************************)
RECURSIVE Compressed(_)
Compressed(node) ==
    /\ \A k \in DOMAIN node.edges :
           /\ Len(node.edges[k].part) > 0
           /\ node.edges[k].part[1] = k
           /\ Compressed(node.edges[k].node)
    /\ \A k1 \in DOMAIN node.edges : \A k2 \in DOMAIN node.edges :
           k1 # k2 => node.edges[k1].part[1] # node.edges[k2].part[1]

\* C8: every node of the trie, from the root down, is compressed.
C8_Compression == Compressed(root)

\* A split has happened: under the edge "a" an untouched node holds the two
\* edges "b" and "c".
C8_Witness ==
    /\ 97 \in DOMAIN root.edges
    /\ root.edges[97].part = <<97>>
    /\ root.edges[97].node.suggestion = <<>>
    /\ DOMAIN root.edges[97].node.edges = {98, 99}

(***************************************************************************)
(* C9.  Duplicates: inserting a word that was already inserted, with the   *)
(* same or a different score, adds another entry for that word: the        *)
(* number of entries the index holds for the word grows by one.            *)
(***************************************************************************)
EntriesFor(set, word) == { s \in set : s.word = word }

\* Whether the word of pair new was inserted before this step.
Reinserted(new) == \E s \in BagToSet(vocab) : s.word = new.word

\* C9 as claimed: every insert of a word inserted before, whatever its score,
\* makes the naive index hold one more entry for that word.
C9_DuplicateAddsEntry ==
    [][InsertStep =>
         LET new == Inserted
         IN  Reinserted(new) =>
                 Cardinality(EntriesFor(naive', new.word))
                     = Cardinality(EntriesFor(naive, new.word)) + 1]_vars

(***************************************************************************)
(* C10.  The naive index returns exactly the first 5 (or all, if fewer)    *)
(* of the vocabulary's suggestions whose word starts with prefix, in       *)
(* descending rank.                                                        *)
(***************************************************************************)
\* C10: the naive list is the top 5 of the distinct pairs of the vocabulary
\* that match.
C10_NaiveIsReference == Queried => IsTop(last.naive, Matching(vocab, last.prefix), 5)

(***************************************************************************)
(* C11.  Queries are total and terminate: Trie::suggestions(prefix)        *)
(* finishes after finitely many walk steps, each of which consumes at      *)
(* least one prefix character, and returns a list.                         *)
(***************************************************************************)
\* The walk of the last query, cut off after one call more than a walk that
\* consumes a character per call can make.
LastWalk == WalkRun(root, last.prefix, Len(last.prefix) + 2)

\* C11: the walk of a query returns within Len(prefix) + 1 calls, every call
\* has a shorter input than the one before, and what it returns is the list.
C11_QueryTerminates ==
    Queried =>
        /\ LastWalk.end.done
        /\ Len(LastWalk.inputs) <= Len(last.prefix) + 1
        /\ \A i \in 1..(Len(LastWalk.inputs) - 1) :
               Len(LastWalk.inputs[i + 1]) < Len(LastWalk.inputs[i])
        /\ LastWalk.end.result = last.trie

\* A query longer than every stored word that walks through two edges before
\* it finds no edge to go on.
C11_Witness ==
    /\ Queried
    /\ last.prefix = <<97, 98, 97>>
    /\ Len(LastWalk.inputs) = 3
    /\ LastWalk.end.how = "missing"

(***************************************************************************)
(* C12.  Subtree-cache invariant: after any sequence of insertions, the    *)
(* top-k cache of every node, root included, is exactly the 5 highest      *)
(* ranked (all, if fewer) of the inserted suggestions whose word begins    *)
(* with the concatenation of the edge labels from the root to that node.   *)
(***************************************************************************)
\* Every node at or below node, each with the concatenation of the labels
\* that lead to it from the root; path is that concatenation for node.
RECURSIVE NodesUnder(_, _)
NodesUnder(node, path) ==
    {[path |-> path, node |-> node]} \cup
    UNION { NodesUnder(node.edges[ch].node, path \o node.edges[ch].part) :
            ch \in DOMAIN node.edges }

AllNodes == NodesUnder(root, <<>>)

\* C12: the cache of every node is the top 5 of the inserted pairs whose
\* word starts with the node's path.
C12_SubtreeCache ==
    status = "ok" =>
        \A n \in AllNodes :
            IsTop(sorted_suggestions(n.node), Matching(vocab, n.path), 5)

(***************************************************************************)
(* C13.  Bounded top-k cache invariant: after any sequence of add calls    *)
(* on a cache, the cache holds exactly the 5 highest ranked (all, if       *)
(* fewer than 5) of the suggestions ever added to it.                      *)
(***************************************************************************)
\* Every insertion calls add_suggestion on the root's cache exactly once with
\* the inserted pair, so the pairs ever added to that cache are the vocabulary.
EverAddedToRoot == BagToSet(vocab)

\* C13: the root's cache, read in ascending order, is the 5 highest ranked of
\* the pairs ever added to it.
C13_BoundedCache ==
    LET cache == BTreeIter(root.top_suggestions)
        n == Len(cache)
    IN  status = "ok" =>
        /\ n = (IF Cardinality(EverAddedToRoot) < 5
                THEN Cardinality(EverAddedToRoot) ELSE 5)
        /\ Range(cache) \subseteq EverAddedToRoot
        /\ \A s \in EverAddedToRoot \ Range(cache) :
               \A i \in 1..n : RanksAbove(cache[i], s)

(***************************************************************************)
(* C14.  Terminal marking: after any sequence of insertions, a node        *)
(* carries a terminal suggestion if and only if some inserted word ends    *)
(* exactly at that node, whether the node existed already, was created by  *)
(* a split, or is the root (the empty word).                               *)
(***************************************************************************)
\* C14: a node's suggestion field is set exactly when the node's path is an
\* inserted word.
C14_TerminalMarking ==
    status = "ok" =>
        \A n \in AllNodes :
            (n.node.suggestion # <<>>) <=> (\E s \in BagToSet(vocab) : s.word = n.path)

(***************************************************************************)
(* C15.  Emptiness: Trie::suggestions(prefix) is the empty list if and     *)
(* only if no inserted word starts with prefix; a missing edge or a        *)
(* mismatch inside an edge label yields the empty list, and a prefix that  *)
(* ends inside an edge label yields the non-empty cache of the edge's      *)
(* child.                                                                  *)
(***************************************************************************)
\* C15: the list is empty exactly when nothing inserted starts with the
\* prefix; the walk's returns on a missing edge and on a mismatch are empty,
\* its return inside a label is the child's cache and is not empty.
C15_Emptiness ==
    Queried =>
        /\ (last.trie = <<>>) <=> (Matching(vocab, last.prefix) = {})
        /\ LastWalk.end.how \in {"missing", "mismatch"} => last.trie = <<>>
        /\ LastWalk.end.how = "inside" =>
               /\ last.trie # <<>>
               /\ last.trie = BTreeIterRev(LastWalk.end.node.top_suggestions)

\* A prefix that shares its first character with an edge label and then
\* disagrees with it, in a trie that holds words.
C15_Witness ==
    /\ Queried
    /\ vocab # EmptyBag
    /\ LastWalk.end.how = "mismatch"
    /\ last.trie = <<>>

\* A prefix that ends inside an edge label.
C15_WitnessInside ==
    /\ Queried
    /\ LastWalk.end.how = "inside"
    /\ last.trie # <<>>

(***************************************************************************)
(* C16.  Insertion frame: insert(word, score) changes only nodes on the    *)
(* insertion path.  Every node that existed before is still present and    *)
(* reached by the same concatenated label string, and every such node      *)
(* whose label string is not a prefix of the inserted word keeps its       *)
(* edges, cache and terminal suggestion.                                   *)
(***************************************************************************)
\* The insert keeps every node of before under its path, unchanged unless the
\* path is a prefix of word, and every node it creates is on word's path.
Framed(before, after, word) ==
    /\ \A n \in before :
           \E m \in after :
               /\ m.path = n.path
               /\ ~IsPrefixOf(n.path, word) => m.node = n.node
    /\ \A m \in after :
           (\A n \in before : n.path # m.path) => IsPrefixOf(m.path, word)

\* C16: every successful insert is framed by the inserted word's path.
C16_InsertFrame ==
    [][InsertStep => Framed(AllNodes, NodesUnder(root', <<>>), Inserted.word)]_vars

\* An insert has returned on a trie in which an edge was split at "a" (an
\* intermediate node with the children b and c) next to another branch, "é".
C16_Witness ==
    /\ last.op = "insert"
    /\ status = "ok"
    /\ \E n \in AllNodes :
           /\ n.path = <<97>>
           /\ n.node.suggestion = <<>>
           /\ DOMAIN n.node.edges = {98, 99}
    /\ \E n \in AllNodes : n.path = <<233>>

(***************************************************************************)
(* C17.  Radix minimality: after any sequence of insertions, every         *)
(* non-root node either is the point where some inserted word ends or has  *)
(* at least two outgoing edges.                                            *)
(***************************************************************************)
WordEndsAt(path) == \E s \in BagToSet(vocab) : s.word = path

\* C17: a node below the root at whose path no inserted word ends has two or
\* more edges.
C17_RadixMinimal ==
    \A n \in AllNodes :
        (n.path # <<>> /\ ~WordEndsAt(n.path)) =>
            Cardinality(DOMAIN n.node.edges) >= 2

\* Both kinds of inner node: a split node at which no word ends, with two
\* children, and a node with a single child at which a word ends.
C17_Witness ==
    /\ \E n \in AllNodes :
           /\ n.path = <<97>>
           /\ ~WordEndsAt(n.path)
           /\ Cardinality(DOMAIN n.node.edges) = 2
    /\ \E n \in AllNodes :
           /\ n.path = <<233>>
           /\ WordEndsAt(n.path)
           /\ Cardinality(DOMAIN n.node.edges) = 1

(***************************************************************************)
(* C18.  Soundness of results: every suggestion returned by                *)
(* suggestions(prefix) is an inserted (word, score) pair whose word starts *)
(* with prefix, so a caller stripping the prefix from each returned word   *)
(* never fails.                                                            *)
(***************************************************************************)
Sound(list, prefix) ==
    /\ \A i \in 1..Len(list) :
           /\ list[i] \in BagToSet(vocab)
           /\ IsPrefixOf(prefix, list[i].word)
    /\ ~print_suggestions_panics(ClientSuggestions(list), prefix)

\* C18: both indexes return inserted pairs that start with the prefix, and
\* print_suggestions strips the prefix from each of their words.
C18_Soundness ==
    Queried => Sound(last.trie, last.prefix) /\ Sound(last.naive, last.prefix)

\* A non-empty prefix that some inserted words start with and others do not;
\* one returned word is longer than the prefix.
C18_Witness ==
    /\ Queried
    /\ last.prefix # <<>>
    /\ \E s \in BagToSet(vocab) : ~IsPrefixOf(last.prefix, s.word)
    /\ \E i \in 1..Len(last.trie) :
           strip_prefix(last.trie[i].word, last.prefix) \notin {<<>>, << <<>> >>}

(***************************************************************************)
(* C19.  Queries are read-only: suggestions(prefix) leaves every node's    *)
(* edges, cache and terminal suggestion unchanged, so queries between      *)
(* insertions do not change the index that results, and repeating a query  *)
(* with no insert in between returns the same list.                        *)
(***************************************************************************)
QueryStep == last'.op = "suggestions"

\* C19: a query step leaves the trie, the naive index and the vocabulary as
\* they were, and asking the same prefix again of the index it leaves
\* returns the lists it returned.
C19_QueryReadOnly ==
    [][QueryStep =>
          /\ root' = root
          /\ naive' = naive
          /\ vocab' = vocab
          /\ TrieSuggestions(root', last'.prefix) = last'.trie
          /\ NaiveSuggestions(naive', last'.prefix) = last'.naive]_vars

\* A query has returned a non-empty list from a trie with split edges, and
\* the same query on the trie as it is now returns that list.
C19_Witness ==
    /\ Queried
    /\ last.trie # <<>>
    /\ \E n \in AllNodes : n.path # <<>> /\ Cardinality(DOMAIN n.node.edges) >= 2
    /\ TrieSuggestions(root, last.prefix) = last.trie

(***************************************************************************)
(* C20.  Suggestion equality: two suggestions compare equal (==) if and    *)
(* only if their words are equal, whatever their scores, while the         *)
(* ranking order compares score first and word second; the list            *)
(* comparison of the trie-versus-naive test uses this word-only equality.  *)
(***************************************************************************)
\* C20: for the inserted suggestions, == holds exactly for equal words; cmp
\* is decided by the scores when they differ and by the words otherwise, so
\* it is Equal only for the same pair; two returned lists are == exactly
\* when they list the same words.
C20_EqualityByWord ==
    /\ \A a \in BagToSet(vocab) : \A b \in BagToSet(vocab) :
           /\ SuggestionEq(a, b) <=> (a.word = b.word)
           /\ a.score < b.score => SuggestionCmp(a, b) = "Less"
           /\ a.score > b.score => SuggestionCmp(a, b) = "Greater"
           /\ a.score = b.score => SuggestionCmp(a, b) = CmpString(a.word, b.word)
           /\ SuggestionCmp(a, b) = "Equal" <=> (a = b)
           /\ SuggestionPartialCmp(a, b) = <<SuggestionCmp(a, b)>>
    /\ Queried =>
           (VecEq(last.trie, last.naive) <=>
               ClientSuggestions(last.trie) = ClientSuggestions(last.naive))

\* A returned list holds the same word with two scores: the two entries are
\* == and are ranked apart.
C20_Witness ==
    /\ Queried
    /\ \E i \in 1..Len(last.trie) : \E j \in 1..Len(last.trie) :
           /\ last.trie[i].score # last.trie[j].score
           /\ SuggestionEq(last.trie[i], last.trie[j])
           /\ SuggestionCmp(last.trie[i], last.trie[j]) = "Greater"

====
